---- MODULE Spec2Model ----
(***************************************************************************)
(* Model of the cache refresh protocol of guidearr (src/app.py): the       *)
(* global cache dictionary, refresh_cache run by the module              *)
(* initialisation, the background scheduler and the /refresh route, and    *)
(* the reader routes index, health, grid_view and print_guide.             *)
(*                                                                         *)
(* Fetched collections are abstracted to the number of the refresh that    *)
(* fetched them (its generation); 0 stands for Python's None.              *)
(***************************************************************************)
EXTENDS Integers, Sequences, FiniteSets, TLC

(* ---------------------------------------------------------------------- *)
(* Bounds                                                                  *)
(* ---------------------------------------------------------------------- *)

\* Number of refresh_cache calls explored (the initial load included).
MaxRefreshes == 3

(* ---------------------------------------------------------------------- *)
(* Threads                                                                 *)
(* ---------------------------------------------------------------------- *)

\* "main" is the module initialisation, "sched" the BackgroundScheduler job,
\* "man" a request thread serving /refresh.
Refreshers == {"main", "sched", "man"}

\* a request thread serving one of the reader routes
Readers == {"rd"}

Procs == Refreshers \cup Readers

ReaderOps == {"index", "health", "grid_view", "print_guide"}

(* ---------------------------------------------------------------------- *)
(* Values                                                                  *)
(* ---------------------------------------------------------------------- *)

Free == "free"

NoneMsg == "None"

\* cache['html'] is None
NoHtml == [kind |-> "none", gen |-> 0, msg |-> NoneMsg, updated |-> 0]

\* cache['epg_programs'] is None
NoEpg == [gen |-> 0, progs |-> << >>]

\* cache['error'] is None, as left by the module-level initialiser
NoError == [gen |-> 0, msg |-> NoneMsg]

\* `from datetime import datetime`: the name timedelta is not bound at module
\* level, so line 1990 raises NameError inside the inner try of refresh_cache.
timedeltaBound == FALSE

\* what the upstream programme endpoints would answer: a failure or a list
UpstreamFail == << "HTTPError" >>
UpstreamPrograms == { << >>, << "p1" >> }

\* steps of refresh_cache whose exception reaches the outer except clause
FatalSteps == {"auth", "groups", "logos", "channels", "profile", "render"}

\* f"Cache refresh failed: {str(e)}"
ErrorMsg(step) == step

\* the synthesized error page
ErrorPage(m) == [kind |-> "error", gen |-> 0, msg |-> m, updated |-> 0]

\* the value of generate_html: the guide of this refresh, with the footer
\* taken from cache['last_updated'] as it is when the page is rendered
generate_html(g, lastUpdated) ==
    [kind |-> "guide", gen |-> g, msg |-> NoneMsg, updated |-> lastUpdated]

\* the global cache as built at import time
InitCache ==
    [html |-> NoHtml, channels |-> 0, groups_map |-> 0, logos_map |-> 0,
     epg_programs |-> NoEpg, last_updated |-> 0, error |-> NoError,
     lock |-> Free]

\* jsonify({'status': 'refreshed', 'last_updated': ...}), 0 for null
Response(lastUpdated) == [status |-> "refreshed", last_updated |-> lastUpdated]

\* manual_refresh has not answered yet
NoResponse == [status |-> "none", last_updated |-> 0]

\* manual_refresh has not run a refresh yet
NoOutcome == [gen |-> 0, res |-> "none", msg |-> NoneMsg]

NoSnap ==
    [html |-> NoHtml, channels |-> 0, groups_map |-> 0, logos_map |-> 0,
     epg_programs |-> NoEpg, last_updated |-> 0, error |-> NoError]

(* ---------------------------------------------------------------------- *)
(* State                                                                   *)
(* ---------------------------------------------------------------------- *)

VARIABLES
    cache,      \* the global cache dictionary
    pc,         \* position of every thread
    calls,      \* number of refresh_cache calls made so far
    nextGen,    \* number of the next refresh to enter the with block
    gen,        \* per refresher: number of the refresh it is running
    failed,     \* per refresher: steps of this refresh that raised
    l_epg,      \* per refresher: local epg_programs
    answered,   \* per refresher: what the programme endpoints answer
    l_html,     \* per refresher: local html
    l_err,      \* per refresher: local error_msg
    before,     \* per refresher: the cache as it was when the refresh began
    outcomes,   \* outcomes of the completed refreshes, oldest first
    serving,    \* the scheduler is started and requests are served
    rop,        \* per reader: the route being served
    ri,         \* per reader: index of the next cache read of the route
    snap,       \* per reader: the cache fields obtained so far
    rres,       \* per reader: the response of the route
    resp,       \* the response of manual_refresh
    triggered,  \* the outcome of the refresh manual_refresh has run
    programs,   \* a list of programme dictionaries handed to a query
    channel,    \* the channel dictionary handed to a query
    hours,      \* the hours parameter of a /grid request
    query,      \* the query that has been evaluated, "none" before
    now,        \* datetime.utcnow() as read by the query
    start_time, \* start of the queried window
    end_time,   \* end of the queried window
    result,     \* what the query returned
    request,    \* the arguments of a /grid request
    config,     \* CHANNEL_PROFILE_NAME and EXCLUDE_CHANNEL_GROUPS
    fetched     \* what the upstream answered to one refresh

cacheVars == << cache, pc, calls, nextGen, gen, failed, l_epg, answered,
                l_html, l_err, before, outcomes, serving, rop, ri, snap, rres,
                resp, triggered >>

queryVars == << programs, channel, hours, query, now, start_time, end_time,
                result, request, config, fetched >>

vars == << cacheVars, queryVars >>

refVars == << gen, failed, l_epg, answered, l_html, l_err, before >>
readerVars == << rop, ri, snap, rres >>

\* positions inside `with cache['lock']:`
FetchPcs == {"auth", "groups", "logos", "epg", "channels", "profile", "render"}
CommitPcs == {"w_html", "w_channels", "w_groups_map", "w_logos_map",
              "w_epg_programs", "w_last_updated", "w_error"}
ExceptPcs == {"x_error", "x_html"}
InLock == FetchPcs \cup CommitPcs \cup ExceptPcs \cup {"release"}

CacheInit ==
    /\ cache = InitCache
    /\ pc = [p \in Procs |-> "idle"]
    /\ calls = 0
    /\ nextGen = 1
    /\ gen = [p \in Refreshers |-> 0]
    /\ failed = [p \in Refreshers |-> {}]
    /\ l_epg = [p \in Refreshers |-> << >>]
    /\ answered = [p \in Refreshers |-> << >>]
    /\ l_html = [p \in Refreshers |-> NoHtml]
    /\ l_err = [p \in Refreshers |-> NoneMsg]
    /\ before = [p \in Refreshers |-> InitCache]
    /\ outcomes = << >>
    /\ serving = FALSE
    /\ rop = [r \in Readers |-> "index"]
    /\ ri = [r \in Readers |-> 0]
    /\ snap = [r \in Readers |-> NoSnap]
    /\ rres = [r \in Readers |-> "none"]
    /\ resp = NoResponse
    /\ triggered = NoOutcome

\* a request argument that int() accepts, and one it rejects
IntArg(v) == [numeric |-> TRUE, value |-> v]

BadArg == [numeric |-> FALSE, value |-> 0]

\* no /grid request
NoRequest ==
    [hours |-> 0, tz_offset |-> IntArg(0), date |-> 0,
     start_hour |-> IntArg(0), utcnow |-> 0]

\* no profile and no excluded group configured
NoConfig == [CHANNEL_PROFILE_NAME |-> "", EXCLUDE_CHANNEL_GROUPS |-> << >>]

\* nothing fetched
NoFetched == [channels |-> << >>, groups_map |-> << >>, profiles |-> << >>]

\* no query is evaluated while the refresh protocol is explored
QueryIdle ==
    /\ programs = << >>
    /\ channel = [tvg_id |-> "None"]
    /\ hours = 0
    /\ query = "none"
    /\ now = 0
    /\ start_time = 0
    /\ end_time = 0
    /\ result = 0
    /\ request = NoRequest
    /\ config = NoConfig
    /\ fetched = NoFetched

Init == CacheInit /\ QueryIdle

(* ---------------------------------------------------------------------- *)
(* refresh_cache                                                           *)
(* ---------------------------------------------------------------------- *)

Goto(p, l) == pc' = [pc EXCEPT ![p] = l]

\* refresh_cache is called: by the module initialisation before anything
\* else runs, afterwards by the scheduler job or by manual_refresh
Call(p) ==
    /\ pc[p] = "idle"
    /\ calls < MaxRefreshes
    /\ IF p = "main" THEN ~serving ELSE serving
    /\ calls' = calls + 1
    /\ Goto(p, "lock")
    /\ UNCHANGED << cache, nextGen, refVars, outcomes, serving, readerVars, resp, triggered, queryVars >>

\* a refresher that enters the with block without owning the lock
AcquireLockNoMutex(p) ==
    /\ pc[p] = "lock"
    /\ nextGen' = nextGen + 1
    /\ gen' = [gen EXCEPT ![p] = nextGen]
    /\ failed' = [failed EXCEPT ![p] = {}]
    /\ l_epg' = [l_epg EXCEPT ![p] = << >>]
    /\ l_html' = [l_html EXCEPT ![p] = NoHtml]
    /\ l_err' = [l_err EXCEPT ![p] = NoneMsg]
    /\ before' = [before EXCEPT ![p] = cache]
    /\ Goto(p, "auth")
    /\ UNCHANGED << cache, calls, outcomes, serving, readerVars, answered,
                    resp, triggered, queryVars >>

\* `with cache['lock']:` blocks until the lock is free and takes it
AcquireLock(p) ==
    /\ pc[p] = "lock"
    /\ cache.lock = Free
    /\ cache' = [cache EXCEPT !.lock = p]
    /\ nextGen' = nextGen + 1
    /\ gen' = [gen EXCEPT ![p] = nextGen]
    /\ failed' = [failed EXCEPT ![p] = {}]
    /\ l_epg' = [l_epg EXCEPT ![p] = << >>]
    /\ l_html' = [l_html EXCEPT ![p] = NoHtml]
    /\ l_err' = [l_err EXCEPT ![p] = NoneMsg]
    /\ before' = [before EXCEPT ![p] = [cache EXCEPT !.lock = p]]
    /\ Goto(p, "auth")
    /\ UNCHANGED << calls, outcomes, serving, readerVars, answered,
                    resp, triggered, queryVars >>

\* an exception raised by `step` reaches `except Exception as e`
Raise(p, step) ==
    /\ failed' = [failed EXCEPT ![p] = @ \cup {step}]
    /\ l_err' = [l_err EXCEPT ![p] = ErrorMsg(step)]
    /\ Goto(p, "x_error")

\* one call of the try block that either returns or raises
FetchStep(p, here, next) ==
    /\ pc[p] = here
    /\ \E ok \in BOOLEAN :
          IF ok THEN Goto(p, next) /\ UNCHANGED << failed, l_err >>
                ELSE Raise(p, here)
    /\ UNCHANGED << cache, calls, nextGen, gen, l_epg, answered, l_html,
                    before, outcomes, serving, readerVars, resp, triggered, queryVars >>

GetAccessToken(p) == FetchStep(p, "auth", "groups")

GetChannelGroups(p) == FetchStep(p, "groups", "logos")

GetLogos(p) == FetchStep(p, "logos", "epg")

\* the inner try around the programme fetch, when the endpoints would
\* answer `up`: whatever is raised there is logged and the refresh goes on
\* with the empty list
ProgrammeFetch(p, up) ==
    /\ pc[p] = "epg"
    /\ IF timedeltaBound /\ up # UpstreamFail
          THEN /\ l_epg' = [l_epg EXCEPT ![p] = up]
               /\ UNCHANGED failed
          ELSE /\ l_epg' = [l_epg EXCEPT ![p] = << >>]
               /\ failed' = [failed EXCEPT ![p] = @ \cup {"programs"}]
    /\ Goto(p, "channels")
    /\ UNCHANGED << cache, calls, nextGen, gen, l_html, l_err, before,
                    outcomes, serving, readerVars, resp, triggered, queryVars >>

GetEpgPrograms(p) ==
    /\ \E up \in UpstreamPrograms \cup {UpstreamFail} : ProgrammeFetch(p, up)
    /\ UNCHANGED answered

\* the same step, with the answer of the endpoints kept as history
GetEpgProgramsObserved(p) ==
    \E up \in UpstreamPrograms \cup {UpstreamFail} :
        /\ ProgrammeFetch(p, up)
        /\ answered' = [answered EXCEPT ![p] = up]

\* a channel fetch whose failure is logged and ignored like the programme one
GetChannelsSwallowed(p) ==
    /\ pc[p] = "channels"
    /\ \E ok \in BOOLEAN :
          IF ok THEN UNCHANGED failed
                ELSE failed' = [failed EXCEPT ![p] = @ \cup {"channels"}]
    /\ Goto(p, "profile")
    /\ UNCHANGED << cache, calls, nextGen, gen, l_epg, answered, l_html,
                    l_err, before, outcomes, serving, readerVars, resp,
                    triggered, queryVars >>

GetChannels(p) == FetchStep(p, "channels", "profile")

\* the profile filter fetches the channel profiles when a profile name is
\* configured; the group exclusion that follows calls nothing that raises
FilterChannels(p) == FetchStep(p, "profile", "render")

\* html = generate_html(...): raises when a channel number does not convert
\* to float, otherwise renders the guide from the fetched data and from
\* cache['last_updated'] as it is at that moment
GenerateHtml(p) ==
    /\ pc[p] = "render"
    /\ \E ok \in BOOLEAN :
          IF ok THEN /\ l_html' = [l_html EXCEPT ![p] =
                                      generate_html(gen[p], cache.last_updated)]
                     /\ Goto(p, "w_html")
                     /\ UNCHANGED << failed, l_err >>
                ELSE /\ Raise(p, "render")
                     /\ UNCHANGED l_html
    /\ UNCHANGED << cache, calls, nextGen, gen, l_epg, answered, before,
                    outcomes, serving, readerVars, resp, triggered, queryVars >>

\* the value a commit assignment stores in a field of the cache
CommitValue(p, field) ==
    CASE field = "html" -> l_html[p]
      [] field = "epg_programs" -> [gen |-> gen[p], progs |-> l_epg[p]]
      [] field = "error" -> [gen |-> gen[p], msg |-> NoneMsg]
      [] OTHER -> gen[p]

\* one of the assignments cache[field] = ... of lines 2030--2036
Assign(p, here, field, next) ==
    /\ pc[p] = here
    /\ cache' = [cache EXCEPT ![field] = CommitValue(p, field)]
    /\ Goto(p, next)
    /\ UNCHANGED << calls, nextGen, refVars, outcomes, serving, readerVars, resp, triggered, queryVars >>

StoreHtml(p) == Assign(p, "w_html", "html", "w_channels")
StoreChannels(p) == Assign(p, "w_channels", "channels", "w_groups_map")
StoreGroupsMap(p) == Assign(p, "w_groups_map", "groups_map", "w_logos_map")
StoreLogosMap(p) == Assign(p, "w_logos_map", "logos_map", "w_epg_programs")
StoreEpgPrograms(p) == Assign(p, "w_epg_programs", "epg_programs", "w_last_updated")
StoreLastUpdated(p) == Assign(p, "w_last_updated", "last_updated", "w_error")

\* a commit that leaves the error of an earlier refresh in place
ClearErrorSkipped(p) ==
    /\ pc[p] = "w_error"
    /\ Goto(p, "release")
    /\ UNCHANGED << cache, calls, nextGen, refVars, outcomes, serving,
                    readerVars, resp, triggered, queryVars >>

\* cache['error'] = None
ClearError(p) == Assign(p, "w_error", "error", "release")

\* an error handler that also stores empty collections for the routes
RecordErrorEmptyData(p) ==
    /\ pc[p] = "x_error"
    /\ cache' = [cache EXCEPT !.error = [gen |-> gen[p], msg |-> l_err[p]],
                              !.channels = gen[p],
                              !.groups_map = gen[p]]
    /\ Goto(p, "x_html")
    /\ UNCHANGED << calls, nextGen, refVars, outcomes, serving, readerVars, resp, triggered, queryVars >>

\* except Exception as e: cache['error'] = error_msg
RecordError(p) ==
    /\ pc[p] = "x_error"
    /\ cache' = [cache EXCEPT !.error = [gen |-> gen[p], msg |-> l_err[p]]]
    /\ Goto(p, "x_html")
    /\ UNCHANGED << calls, nextGen, refVars, outcomes, serving, readerVars, resp, triggered, queryVars >>

\* an error handler that never synthesizes the error page
ErrorPageNever(p) ==
    /\ pc[p] = "x_html"
    /\ Goto(p, "release")
    /\ UNCHANGED << cache, calls, nextGen, refVars, outcomes, serving,
                    readerVars, resp, triggered, queryVars >>

\* an error handler that replaces the artifact whatever it was
ErrorPageAlways(p) ==
    /\ pc[p] = "x_html"
    /\ cache' = [cache EXCEPT !.html = ErrorPage(l_err[p])]
    /\ Goto(p, "release")
    /\ UNCHANGED << calls, nextGen, refVars, outcomes, serving, readerVars, resp, triggered, queryVars >>

\* if cache['html'] is None: cache['html'] = <error page>
ErrorPageIfNone(p) ==
    /\ pc[p] = "x_html"
    /\ cache' = IF cache.html = NoHtml
                   THEN [cache EXCEPT !.html = ErrorPage(l_err[p])]
                   ELSE cache
    /\ Goto(p, "release")
    /\ UNCHANGED << calls, nextGen, refVars, outcomes, serving, readerVars, resp, triggered, queryVars >>

Outcome(p) == IF l_err[p] = NoneMsg THEN "ok" ELSE "fail"

\* where the caller of refresh_cache goes on
AfterRefresh(p) ==
    CASE p = "main" -> "start_scheduler"
      [] p = "man" -> "m_check"
      [] OTHER -> "idle"

\* the with block is left: the lock is released and refresh_cache returns
LeaveLock(p) ==
    /\ pc[p] = "release"
    /\ cache' = [cache EXCEPT !.lock = Free]
    /\ outcomes' = Append(outcomes, [gen |-> gen[p], res |-> Outcome(p),
                                     msg |-> l_err[p]])
    /\ gen' = [gen EXCEPT ![p] = 0]
    /\ failed' = [failed EXCEPT ![p] = {}]
    /\ l_epg' = [l_epg EXCEPT ![p] = << >>]
    /\ l_html' = [l_html EXCEPT ![p] = NoHtml]
    /\ l_err' = [l_err EXCEPT ![p] = NoneMsg]
    /\ before' = [before EXCEPT ![p] = InitCache]
    /\ Goto(p, AfterRefresh(p))
    /\ UNCHANGED << calls, nextGen, serving, readerVars, resp, queryVars >>

ReleaseLock(p) ==
    /\ LeaveLock(p)
    /\ UNCHANGED << answered, triggered >>

\* the same step, with the outcome of the refresh run by manual_refresh
\* kept as history
ReleaseLockObserved(p) ==
    /\ LeaveLock(p)
    /\ answered' = [answered EXCEPT ![p] = << >>]
    /\ triggered' = IF p = "man"
                       THEN [gen |-> gen[p], res |-> Outcome(p),
                             msg |-> l_err[p]]
                       ELSE triggered

\* start_scheduler(): the job is added and the scheduler thread started;
\* the application is then served
StartScheduler ==
    /\ pc["main"] = "start_scheduler"
    /\ serving' = TRUE
    /\ Goto("main", "serving")
    /\ UNCHANGED << cache, calls, nextGen, refVars, outcomes, readerVars, resp, triggered, queryVars >>

\* manual_refresh: `... if cache['last_updated'] else None`, the condition
ManualCheck ==
    /\ pc["man"] = "m_check"
    /\ IF cache.last_updated = 0
          THEN resp' = Response(0) /\ Goto("man", "idle")
          ELSE UNCHANGED resp /\ Goto("man", "m_read")
    /\ UNCHANGED << cache, calls, nextGen, refVars, outcomes, serving,
                    readerVars, triggered, queryVars >>

\* manual_refresh: cache['last_updated'].isoformat(), and the response
ManualRespond ==
    /\ pc["man"] = "m_read"
    /\ resp' = Response(cache.last_updated)
    /\ Goto("man", "idle")
    /\ UNCHANGED << cache, calls, nextGen, refVars, outcomes, serving,
                    readerVars, triggered, queryVars >>

RefreshCache(p) ==
    \/ Call(p)
    \/ AcquireLock(p)
    \/ GetAccessToken(p)
    \/ GetChannelGroups(p)
    \/ GetLogos(p)
    \/ GetEpgPrograms(p)
    \/ GetChannels(p)
    \/ FilterChannels(p)
    \/ GenerateHtml(p)
    \/ StoreHtml(p)
    \/ StoreChannels(p)
    \/ StoreGroupsMap(p)
    \/ StoreLogosMap(p)
    \/ StoreEpgPrograms(p)
    \/ StoreLastUpdated(p)
    \/ ClearError(p)
    \/ RecordError(p)
    \/ ErrorPageIfNone(p)
    \/ ReleaseLock(p)

(* ---------------------------------------------------------------------- *)
(* The reader routes                                                       *)
(* ---------------------------------------------------------------------- *)

\* the reads of the cache a route performs, in program order
ReadSeq(op) ==
    CASE op = "index" -> << "html" >>
      [] op = "health" -> << "html", "last_updated", "last_updated", "error" >>
      [] op = "grid_view" -> << "channels", "groups_map", "channels",
                                "groups_map", "logos_map", "epg_programs" >>
      [] op = "print_guide" -> << "channels", "groups_map", "channels",
                                  "groups_map" >>

\* a request for one of the reader routes arrives
ReaderEnter(r) ==
    /\ pc[r] = "idle"
    /\ serving
    /\ \E op \in ReaderOps : rop' = [rop EXCEPT ![r] = op]
    /\ ri' = [ri EXCEPT ![r] = 1]
    /\ snap' = [snap EXCEPT ![r] = NoSnap]
    /\ rres' = [rres EXCEPT ![r] = "none"]
    /\ Goto(r, "reading")
    /\ UNCHANGED << cache, calls, nextGen, refVars, outcomes, serving, resp, triggered, queryVars >>

\* the route evaluates its next cache[...] expression
Obtain(r) ==
    LET field == ReadSeq(rop[r])[ri[r]]
        v == cache[field]
        last == ri[r] = Len(ReadSeq(rop[r]))
    IN  /\ snap' = [snap EXCEPT ![r][field] = v]
        /\ IF rop[r] \in {"grid_view", "print_guide"} /\ ri[r] \in {1, 2} /\ v = 0
              THEN \* "Cache is loading, please try again in a moment...", 503
                   /\ rres' = [rres EXCEPT ![r] = "503"]
                   /\ Goto(r, "ret")
                   /\ UNCHANGED ri
              ELSE IF rop[r] = "health" /\ ri[r] = 2 /\ v = 0
              THEN \* `... if cache['last_updated'] else None`
                   /\ ri' = [ri EXCEPT ![r] = 4]
                   /\ UNCHANGED << rres, pc >>
              ELSE IF last
              THEN /\ rres' = [rres EXCEPT ![r] = "200"]
                   /\ Goto(r, "ret")
                   /\ UNCHANGED ri
              ELSE /\ ri' = [ri EXCEPT ![r] = @ + 1]
                   /\ UNCHANGED << rres, pc >>
        /\ UNCHANGED << cache, calls, nextGen, refVars, outcomes, serving,
                        rop, resp, triggered, queryVars >>

\* a reader that takes the cache lock for each read
ReaderReadLocked(r) ==
    /\ pc[r] = "reading"
    /\ cache.lock = Free
    /\ Obtain(r)

\* the routes read the cache dictionary directly, without the lock
ReaderRead(r) ==
    /\ pc[r] = "reading"
    /\ Obtain(r)

\* a route that has sorted cache['channels'] in place: the cached list
\* holds the same channels in another order
ReaderReturnSorted(r) ==
    /\ pc[r] = "ret"
    /\ cache' = [cache EXCEPT !.channels = 0 - cache.channels]
    /\ snap' = [snap EXCEPT ![r] = NoSnap]
    /\ rres' = [rres EXCEPT ![r] = "none"]
    /\ ri' = [ri EXCEPT ![r] = 0]
    /\ rop' = [rop EXCEPT ![r] = "index"]
    /\ Goto(r, "idle")
    /\ UNCHANGED << calls, nextGen, refVars, outcomes, serving, resp, triggered, queryVars >>

\* the response is sent
ReaderReturn(r) ==
    /\ pc[r] = "ret"
    /\ snap' = [snap EXCEPT ![r] = NoSnap]
    /\ rres' = [rres EXCEPT ![r] = "none"]
    /\ ri' = [ri EXCEPT ![r] = 0]
    /\ rop' = [rop EXCEPT ![r] = "index"]
    /\ Goto(r, "idle")
    /\ UNCHANGED << cache, calls, nextGen, refVars, outcomes, serving, resp, triggered, queryVars >>

Reader(r) ==
    \/ ReaderEnter(r)
    \/ ReaderRead(r)
    \/ ReaderReturn(r)

(* ---------------------------------------------------------------------- *)
(* Specification                                                           *)
(* ---------------------------------------------------------------------- *)

Next ==
    \/ \E p \in Refreshers : RefreshCache(p)
    \/ StartScheduler
    \/ ManualCheck
    \/ ManualRespond
    \/ \E r \in Readers : Reader(r)

Spec == Init /\ [][Next]_vars

\* the refreshers alone, with the history of what the programme endpoints
\* answered and of the refresh that manual_refresh ran
RefreshCacheObserved(p) ==
    \/ Call(p)
    \/ AcquireLock(p)
    \/ GetAccessToken(p)
    \/ GetChannelGroups(p)
    \/ GetLogos(p)
    \/ GetEpgProgramsObserved(p)
    \/ GetChannels(p)
    \/ FilterChannels(p)
    \/ GenerateHtml(p)
    \/ StoreHtml(p)
    \/ StoreChannels(p)
    \/ StoreGroupsMap(p)
    \/ StoreLogosMap(p)
    \/ StoreEpgPrograms(p)
    \/ StoreLastUpdated(p)
    \/ ClearError(p)
    \/ RecordError(p)
    \/ ErrorPageIfNone(p)
    \/ ReleaseLockObserved(p)

ObservedNext ==
    \/ \E p \in Refreshers : RefreshCacheObserved(p)
    \/ StartScheduler
    \/ ManualCheck
    \/ ManualRespond

ObservedSpec == Init /\ [][ObservedNext]_vars

(* ---------------------------------------------------------------------- *)
(* The programme queries                                                   *)
(* ---------------------------------------------------------------------- *)

\* Largest instant of the programme queries; instants are 0..MaxTime.
MaxTime == 2

\* Longest programme list handed to a query.
MaxPrograms == 2

Times == 0..MaxTime

\* dict.get('tvg_id') when the key is absent, or its value is null
NoKey == "None"

\* a start_time or end_time that is absent or that fromisoformat rejects
Malformed == [kind |-> "bad", t |-> 0]

\* a timestamp fromisoformat accepts, as the naive UTC instant it yields
Iso(t) == [kind |-> "iso", t |-> t]

Timestamps == {Iso(t) : t \in Times} \cup {Malformed}

ProgramKeys == {"A", "B", NoKey}

ChannelKeys == {"A", "", NoKey}

Programs ==
    [tvg_id : ProgramKeys, start_time : Timestamps, end_time : Timestamps]

ProgramLists == UNION {[1..n -> Programs] : n \in 0..MaxPrograms}

\* the try block parses the timestamp without raising
ParseOk(ts) == ts.kind = "iso"

\* a channel key that passes for every channel
FalsyNever(tvg_id) == FALSE

\* `if not tvg_id`
Falsy(tvg_id) == tvg_id \in {NoKey, ""}

\* the scan of get_current_program_for_channel from the i-th programme on;
\* the value is the position of the programme returned, 0 for None
RECURSIVE CurrentFrom(_, _, _, _)
CurrentFrom(tvg_id, progs, t, i) ==
    IF i > Len(progs) THEN 0
    ELSE IF progs[i].tvg_id # tvg_id THEN CurrentFrom(tvg_id, progs, t, i + 1)
    ELSE IF ~ParseOk(progs[i].start_time) \/ ~ParseOk(progs[i].end_time)
         THEN CurrentFrom(tvg_id, progs, t, i + 1)
    ELSE IF progs[i].start_time.t <= t /\ t <= progs[i].end_time.t THEN i
    ELSE CurrentFrom(tvg_id, progs, t, i + 1)

get_current_program_for_channel(ch, progs, t) ==
    IF Falsy(ch.tvg_id) THEN 0 ELSE CurrentFrom(ch.tvg_id, progs, t, 1)

\* list.sort(key=...) is stable: x goes behind every element whose key is
\* not larger
RECURSIVE InsertByKey(_, _, _)
InsertByKey(sorted, x, key) ==
    IF sorted = << >> THEN << x >>
    ELSE IF key[Head(sorted)] <= key[x]
         THEN << Head(sorted) >> \o InsertByKey(Tail(sorted), x, key)
    ELSE << x >> \o sorted

RECURSIVE SortByKey(_, _)
SortByKey(seq, key) ==
    IF seq = << >> THEN << >>
    ELSE InsertByKey(SortByKey(SubSeq(seq, 1, Len(seq) - 1), key),
                     seq[Len(seq)], key)

\* the positions from i on, in list order, at which keep holds
RECURSIVE Positions(_, _)
Positions(keep, i) ==
    IF i \notin DOMAIN keep THEN << >>
    ELSE (IF keep[i] THEN << i >> ELSE << >>) \o Positions(keep, i + 1)

\* the key of the sort: the parsed start of the programme at a position
StartKey(progs) ==
    [i \in 1..Len(progs) |->
        IF ParseOk(progs[i].start_time) THEN progs[i].start_time.t ELSE 0]

\* the programmes appended to upcoming_programs
Upcoming(tvg_id, progs, t) ==
    LET keep == [i \in 1..Len(progs) |->
                    /\ progs[i].tvg_id = tvg_id
                    /\ ParseOk(progs[i].start_time)
                    /\ progs[i].start_time.t > t]
    IN  Positions(keep, 1)

\* a query that returns the first upcoming programme of the list
get_next_program_unsorted(ch, progs, t) ==
    IF Falsy(ch.tvg_id) THEN 0
    ELSE LET upcoming == Upcoming(ch.tvg_id, progs, t)
         IN  IF upcoming # << >> THEN upcoming[1] ELSE 0

get_next_program_for_channel(ch, progs, t) ==
    IF Falsy(ch.tvg_id) THEN 0
    ELSE LET upcoming == SortByKey(Upcoming(ch.tvg_id, progs, t), StartKey(progs))
         IN  IF upcoming # << >> THEN upcoming[1] ELSE 0

\* an overlap test that also takes the programmes touching the window
OverlapsClosed(prog_start, prog_end, s, e) ==
    prog_start <= e /\ prog_end >= s

\* an overlap test that compares the programme end with the window end
OverlapsAtEnd(prog_start, prog_end, s, e) ==
    prog_start < e /\ prog_end > e

\* prog_start < end_time and prog_end > start_time
Overlaps(prog_start, prog_end, s, e) ==
    prog_start < e /\ prog_end > s

\* the positions of the programmes returned, in the order returned
get_programs_in_timerange(ch, progs, s, e) ==
    IF Falsy(ch.tvg_id) THEN << >>
    ELSE LET keep == [i \in 1..Len(progs) |->
                         /\ progs[i].tvg_id = ch.tvg_id
                         /\ ParseOk(progs[i].start_time)
                         /\ ParseOk(progs[i].end_time)
                         /\ Overlaps(progs[i].start_time.t,
                                     progs[i].end_time.t, s, e)]
         IN  SortByKey(Positions(keep, 1), StartKey(progs))

\* the inputs of a query: any channel and any programme list
MatcherInit ==
    /\ CacheInit
    /\ programs \in ProgramLists
    /\ channel \in [tvg_id : ChannelKeys]
    /\ hours = 0
    /\ query = "none"
    /\ now = 0
    /\ start_time = 0
    /\ end_time = 0
    /\ result = 0
    /\ request = NoRequest
    /\ config = NoConfig
    /\ fetched = NoFetched

QueryCurrent ==
    /\ query = "none"
    /\ \E t \in Times :
          /\ now' = t
          /\ result' = get_current_program_for_channel(channel, programs, t)
    /\ query' = "current"
    /\ UNCHANGED << cacheVars, programs, channel, hours, start_time, end_time,
                    request, config, fetched >>

QueryNext ==
    /\ query = "none"
    /\ \E t \in Times :
          /\ now' = t
          /\ result' = get_next_program_for_channel(channel, programs, t)
    /\ query' = "next"
    /\ UNCHANGED << cacheVars, programs, channel, hours, start_time, end_time,
                    request, config, fetched >>

QueryTimerange ==
    /\ query = "none"
    /\ \E s \in Times, e \in Times :
          /\ s < e
          /\ start_time' = s
          /\ end_time' = e
          /\ result' = get_programs_in_timerange(channel, programs, s, e)
    /\ query' = "timerange"
    /\ UNCHANGED << cacheVars, programs, channel, hours, now,
                    request, config, fetched >>

MatcherNext ==
    \/ QueryCurrent
    \/ QueryNext
    \/ QueryTimerange

MatcherSpec == MatcherInit /\ [][MatcherNext]_vars

(* ---------------------------------------------------------------------- *)
(* The grid projection of grid_view                                        *)
(* ---------------------------------------------------------------------- *)

\* Longest programme list projected by a /grid request.
MaxGridPrograms == 2

\* slot_width = 200  # pixels per 30-minute slot
slot_width == 200

\* interval_minutes=30 of the calls of generate_time_slots
interval_minutes == 30

\* values of the hours parameter of the request, before the clamp
HoursParams == {1, 3}

\* the UTC start handed to generate_time_slots, in minutes
StartDates == {75}

\* programme instants in minutes: before, at and inside the window, and at
\* and after the end of a two hour window
GridInstants == {30, 60, 90, 180, 210}

GridPrograms ==
    [tvg_id : {"A", "B"},
     start_time : {Iso(t) : t \in GridInstants},
     end_time : {Iso(t) : t \in GridInstants}]

GridProgramLists == UNION {[1..n -> GridPrograms] : n \in 0..MaxGridPrograms}

Max(a, b) == IF a >= b THEN a ELSE b

Min(a, b) == IF a <= b THEN a ELSE b

\* hours = min(max(hours, 2), 24)
ClampHours(h) == Min(Max(h, 2), 24)

\* generate_time_slots returning one slot less: range(num_slots)
generate_time_slots_short(h, interval, start_date) ==
    LET minute == start_date % 60
        minutes == (minute \div interval) * interval
        first == (start_date - minute) + minutes
        num_slots == (h * 60) \div interval
    IN  [i \in 1..num_slots |-> first + (i - 1) * interval]

\* generate_time_slots without start_hour: the start is rounded down to the
\* interval inside its hour, and num_slots + 1 slots are returned
generate_time_slots(h, interval, start_date) ==
    LET minute == start_date % 60
        minutes == (minute \div interval) * interval
        first == (start_date - minute) + minutes
        num_slots == (h * 60) \div interval
    IN  [i \in 1..(num_slots + 1) |-> first + (i - 1) * interval]

\* a block scaled from the programme's own start and end, without clipping
ProgramBlockUnclipped(progs, i, s, e) ==
    [prog |-> i,
     no_data |-> FALSE,
     left_px |-> ((progs[i].start_time.t - s) * slot_width) \div 30,
     width_px |-> ((progs[i].end_time.t - progs[i].start_time.t)
                      * slot_width) \div 30]

\* the block of one programme: clipped to the window, then scaled; the
\* instants are multiples of 30 minutes, for which the float arithmetic of
\* (minutes / 30) * slot_width is exact
ProgramBlock(progs, i, s, e) ==
    LET prog_start == Max(progs[i].start_time.t, s)
        prog_end == Min(progs[i].end_time.t, e)
        offset_minutes == prog_start - s
        duration_minutes == prog_end - prog_start
    IN  [prog |-> i,
         no_data |-> FALSE,
         left_px |-> (offset_minutes * slot_width) \div 30,
         width_px |-> (duration_minutes * slot_width) \div 30]

\* a row that gets no block when no programme overlaps the window
program_blocks_no_placeholder(ch, progs, time_slots) ==
    LET s == time_slots[1]
        e == time_slots[Len(time_slots)]
        channel_programs == get_programs_in_timerange(ch, progs, s, e)
    IN  [k \in 1..Len(channel_programs) |->
            ProgramBlock(progs, channel_programs[k], s, e)]

\* the blocks of one channel row
program_blocks(ch, progs, time_slots) ==
    LET s == time_slots[1]
        e == time_slots[Len(time_slots)]
        channel_programs == get_programs_in_timerange(ch, progs, s, e)
    IN  IF channel_programs # << >>
           THEN [k \in 1..Len(channel_programs) |->
                    ProgramBlock(progs, channel_programs[k], s, e)]
           ELSE << [prog |-> 0,
                    no_data |-> TRUE,
                    left_px |-> 0,
                    width_px |-> Len(time_slots) * slot_width] >>

\* the inputs of the projection: a cached channel and programme list
GridInit ==
    /\ CacheInit
    /\ programs \in GridProgramLists
    /\ channel \in [tvg_id : {"A", ""}]
    /\ hours = 0
    /\ query = "none"
    /\ now = 0
    /\ start_time = 0
    /\ end_time = 0
    /\ result = 0
    /\ request = NoRequest
    /\ config = NoConfig
    /\ fetched = NoFetched

\* grid_view builds the window and the row of the channel
GridRow ==
    /\ query = "none"
    /\ \E h \in HoursParams, d \in StartDates :
          LET time_slots == generate_time_slots(ClampHours(h),
                                                interval_minutes, d)
          IN  /\ hours' = ClampHours(h)
              /\ now' = d
              /\ start_time' = time_slots[1]
              /\ end_time' = time_slots[Len(time_slots)]
              /\ result' = [time_slots |-> time_slots,
                            blocks |-> program_blocks(channel, programs,
                                                      time_slots)]
    /\ query' = "grid"
    /\ UNCHANGED << cacheVars, programs, channel,
                    request, config, fetched >>

GridNext == GridRow

GridSpec == GridInit /\ [][GridNext]_vars

(* ---------------------------------------------------------------------- *)
(* The window of grid_view: request arguments, time slots, labels          *)
(* ---------------------------------------------------------------------- *)

\* minutes of one day: instants are minutes, day d begins at d * DayMinutes
DayMinutes == 1440

\* the requests: every hours argument from 0 to 26; the client offsets
\* (getTimezoneOffset, in minutes) of UTC, UTC-6, UTC-5, UTC+5:45 and
\* UTC-0:45, or an offset that is not a number; the date as a day number, 0
\* when it is empty or does not parse; start hours inside and outside
\* 0..23, or one that is not a number; datetime.utcnow() of the request
Requests ==
    [hours : 0..26,
     tz_offset : {BadArg} \cup {IntArg(v) : v \in {0, 360, 300, -345, 45}},
     date : {0, 3},
     start_hour : {BadArg} \cup {IntArg(v) : v \in {-1, 0, 7, 23, 24}},
     utcnow : {3 * DayMinutes + 75, 3 * DayMinutes + 1300}]

\* int(tz_offset_param), 0 on ValueError
tz_offset_minutes(req) ==
    IF req.tz_offset.numeric THEN req.tz_offset.value ELSE 0

\* the date is selected when both the date and the start hour parse
DateSelected(req) == req.date # 0 /\ req.start_hour.numeric

\* start_hour = min(max(start_hour, 0), 23), 0 when no date is selected
StartHour(req) ==
    IF DateSelected(req) THEN Min(Max(req.start_hour.value, 0), 23) ELSE 0

\* the local start of the window: the selected date at the start hour, or
\* the local midnight before now
LocalStart(req) ==
    IF DateSelected(req)
       THEN req.date * DayMinutes + StartHour(req) * 60
       ELSE LET now_local == req.utcnow - tz_offset_minutes(req)
            IN  now_local - (now_local % DayMinutes)

\* selected_datetime_utc, or midnight_utc: the local start plus the offset
StartDateUtc(req) == LocalStart(req) + tz_offset_minutes(req)

\* strftime('%I:%M %p'): the twelve hour clock of an instant
time_label(t) ==
    LET m == t % DayMinutes
        h == m \div 60
    IN  [hour |-> IF h % 12 = 0 THEN 12 ELSE h % 12,
         minute |-> m % 60,
         pm |-> h >= 12]

\* the inputs of the window: any request
WindowInit ==
    /\ CacheInit
    /\ programs = << >>
    /\ channel = [tvg_id |-> "None"]
    /\ hours = 0
    /\ query = "none"
    /\ now = 0
    /\ start_time = 0
    /\ end_time = 0
    /\ result = 0
    /\ request \in Requests
    /\ config = NoConfig
    /\ fetched = NoFetched

\* grid_view builds the time slots, the slot labels and the timeline width
GridWindow ==
    /\ query = "none"
    /\ LET tz == tz_offset_minutes(request)
           time_slots == generate_time_slots(ClampHours(request.hours),
                                             interval_minutes,
                                             StartDateUtc(request))
       IN  /\ hours' = ClampHours(request.hours)
           /\ now' = StartDateUtc(request)
           /\ start_time' = time_slots[1]
           /\ end_time' = time_slots[Len(time_slots)]
           /\ result' = [time_slots |-> time_slots,
                         labels |-> [i \in 1..Len(time_slots) |->
                                        time_label(time_slots[i] - tz)],
                         total_width |-> Len(time_slots) * slot_width]
    /\ query' = "window"
    /\ UNCHANGED << cacheVars, programs, channel, request, config, fetched >>

WindowSpec == WindowInit /\ [][GridWindow]_vars

(* ---------------------------------------------------------------------- *)
(* The channel filters and the channel order of refresh_cache              *)
(* ---------------------------------------------------------------------- *)

\* Longest channel list fetched by a refresh.
MaxChannels == 2

\* str.lower() on the names that occur
Lower(s) ==
    CASE s = "News" -> "news"
      [] s = "NEWS" -> "news"
      [] s = "Kids" -> "kids"
      [] s = "Sports" -> "sports"
      [] s = "Family" -> "family"
      [] s = "Other" -> "other"
      [] OTHER -> s

\* str.strip() on the parts of EXCLUDE_CHANNEL_GROUPS that occur
Strip(s) ==
    CASE s = " " -> ""
      [] s = " news " -> "news"
      [] OTHER -> s

\* channel ids
ChannelIds == 1..2

\* the group-name mappings built from the fetched groups
GroupsMaps ==
    UNION {[D -> {"News", "NEWS", "Kids"}] : D \in {{}, {10}, {10, 20}}}

\* a channel number: the key is absent, null, a number, a numeric string or
\* another string
NumberOf(v) == [kind |-> "number", value |-> v]

ChannelNumbers ==
    {[kind |-> "absent", value |-> 0], [kind |-> "null", value |-> 0],
     [kind |-> "text", value |-> 0], [kind |-> "numeric_text", value |-> 1],
     NumberOf(1), NumberOf(2)}

\* channels whose number is their id, for the filters; the group id 0
\* stands for no channel_group_id
FilterChannelSet ==
    {[id |-> i, channel_group_id |-> g, channel_number |-> NumberOf(i)] :
        i \in ChannelIds, g \in {0, 10, 20}}

\* channels without a group, for the order
SortChannelSet ==
    [id : ChannelIds, channel_group_id : {0},
     channel_number : ChannelNumbers]

\* an item of the channels property of a profile: an int, a string of
\* digits, another string, or another object
ProfileItems ==
    {[kind |-> "int", value |-> 1], [kind |-> "digits", value |-> 2],
     [kind |-> "word", value |-> 0], [kind |-> "dict", value |-> 1]}

\* the channels property: a list of items, or a value that is not a list
ProfileChannels ==
    {[is_list |-> FALSE, items |-> << >>]}
    \cup {[is_list |-> TRUE, items |-> l] :
            l \in {<< >>} \cup {<< i >> : i \in ProfileItems}
                  \cup {<< [kind |-> "int", value |-> 1],
                           [kind |-> "digits", value |-> 2] >>}}

\* the profiles the upstream lists
ProfileLists ==
    {<< >>} \cup {<< [name |-> n, channels |-> c] >> :
                     n \in {"family", "Other"}, c \in ProfileChannels}

\* EXCLUDE_CHANNEL_GROUPS split at the commas; << >> is the empty string
ExcludeSettings ==
    {<< >>, << " " >>, << " news " >>, << "Kids", "" >>, << "Sports" >>}

Configs ==
    [CHANNEL_PROFILE_NAME : {"", "Family"},
     EXCLUDE_CHANNEL_GROUPS : ExcludeSettings]

\* the first profile whose name equals profile_name ignoring case, 0: None
RECURSIVE ProfileFrom(_, _, _)
ProfileFrom(profiles, profile_name, i) ==
    IF i > Len(profiles) THEN 0
    ELSE IF Lower(profiles[i].name) = Lower(profile_name) THEN i
    ELSE ProfileFrom(profiles, profile_name, i + 1)

get_channel_profile_by_name(profiles, profile_name) ==
    ProfileFrom(profiles, profile_name, 1)

\* the ints and the strings of digits of the items, in list order
RECURSIVE ItemIds(_)
ItemIds(items) ==
    IF items = << >> THEN << >>
    ELSE (IF Head(items).kind \in {"int", "digits"}
             THEN << Head(items).value >> ELSE << >>)
         \o ItemIds(Tail(items))

get_channel_ids_from_profile(profile) ==
    LET channels_prop == profile.channels
    IN  IF ~channels_prop.is_list \/ channels_prop.items = << >>
           THEN << >>
           ELSE ItemIds(channels_prop.items)

\* a profile filter that keeps no channel when the profile yields no id
ProfileFilterClosed(cfg, f) ==
    IF cfg.CHANNEL_PROFILE_NAME # ""
       THEN LET profile == get_channel_profile_by_name(
                               f.profiles, cfg.CHANNEL_PROFILE_NAME)
            IN  IF profile # 0
                   THEN LET profile_channel_ids ==
                                get_channel_ids_from_profile(
                                    f.profiles[profile])
                        IN  SelectSeq(f.channels,
                                LAMBDA ch :
                                    \E k \in 1..Len(profile_channel_ids) :
                                        profile_channel_ids[k] = ch.id)
                   ELSE f.channels
       ELSE f.channels

\* the channels after the profile filter
ProfileFilter(cfg, f) ==
    IF cfg.CHANNEL_PROFILE_NAME # ""
       THEN LET profile == get_channel_profile_by_name(
                               f.profiles, cfg.CHANNEL_PROFILE_NAME)
            IN  IF profile # 0
                   THEN LET profile_channel_ids ==
                                get_channel_ids_from_profile(
                                    f.profiles[profile])
                        IN  IF profile_channel_ids # << >>
                               THEN SelectSeq(f.channels,
                                        LAMBDA ch :
                                            \E k \in
                                              1..Len(profile_channel_ids) :
                                                profile_channel_ids[k]
                                                    = ch.id)
                               ELSE f.channels
                   ELSE f.channels
       ELSE f.channels

\* [name.strip() for name in ...split(',') if name.strip()]
RECURSIVE ExcludeNames(_)
ExcludeNames(parts) ==
    IF parts = << >> THEN << >>
    ELSE (IF Strip(Head(parts)) # "" THEN << Strip(Head(parts)) >>
                                     ELSE << >>)
         \o ExcludeNames(Tail(parts))

\* a group exclusion that compares the names as they are written
ExcludeFilterCaseSensitive(cfg, groups_map, channels) ==
    IF cfg.EXCLUDE_CHANNEL_GROUPS # << >>
       THEN LET exclude_names == ExcludeNames(cfg.EXCLUDE_CHANNEL_GROUPS)
                exclude_group_ids ==
                    {g \in DOMAIN groups_map :
                        \E k \in 1..Len(exclude_names) :
                            groups_map[g] = exclude_names[k]}
            IN  IF exclude_names # << >> /\ exclude_group_ids # {}
                   THEN SelectSeq(channels,
                            LAMBDA ch :
                                ch.channel_group_id \notin exclude_group_ids)
                   ELSE channels
       ELSE channels

\* the channels after the group exclusion
ExcludeFilter(cfg, groups_map, channels) ==
    IF cfg.EXCLUDE_CHANNEL_GROUPS # << >>
       THEN LET exclude_names == ExcludeNames(cfg.EXCLUDE_CHANNEL_GROUPS)
                exclude_group_ids ==
                    {g \in DOMAIN groups_map :
                        \E k \in 1..Len(exclude_names) :
                            Lower(groups_map[g]) = Lower(exclude_names[k])}
            IN  IF exclude_names # << >> /\ exclude_group_ids # {}
                   THEN SelectSeq(channels,
                            LAMBDA ch :
                                ch.channel_group_id \notin exclude_group_ids)
                   ELSE channels
       ELSE channels

\* float(ch.get('channel_number', 999999)) raises TypeError for null and
\* ValueError for a string that is not a number
FloatRaises(ch) == ch.channel_number.kind \in {"null", "text"}

\* the value of float(ch.get('channel_number', 999999)) when it returns
FloatKey(ch) ==
    IF ch.channel_number.kind = "absent" THEN 999999
    ELSE ch.channel_number.value

\* sorted(channels, key=...) of generate_html: the positions in the order
\* rendered
SortedChannels(channels) ==
    SortByKey([i \in 1..Len(channels) |-> i],
              [i \in 1..Len(channels) |-> FloatKey(channels[i])])

\* the inputs of the filters: any configuration, any fetched channels,
\* groups and profiles
FilterInit ==
    /\ CacheInit
    /\ programs = << >>
    /\ channel = [tvg_id |-> "None"]
    /\ hours = 0
    /\ query = "none"
    /\ now = 0
    /\ start_time = 0
    /\ end_time = 0
    /\ result = 0
    /\ request = NoRequest
    /\ config \in Configs
    /\ fetched \in [channels : UNION {[1..n -> FilterChannelSet] :
                                         n \in 0..MaxChannels},
                    groups_map : GroupsMaps,
                    profiles : ProfileLists]

\* the inputs of the order: any channel numbers, nothing configured
SortInit ==
    /\ CacheInit
    /\ programs = << >>
    /\ channel = [tvg_id |-> "None"]
    /\ hours = 0
    /\ query = "none"
    /\ now = 0
    /\ start_time = 0
    /\ end_time = 0
    /\ result = 0
    /\ request = NoRequest
    /\ config = NoConfig
    /\ fetched \in [channels : UNION {[1..n -> SortChannelSet] :
                                         n \in 0..MaxChannels},
                    groups_map : {<< >>},
                    profiles : {<< >>}]

\* refresh_cache from the fetched channels to the commit: the two filters,
\* then generate_html, which sorts the channels; an exception of the sort
\* reaches the except clause and nothing is committed
RefreshChannels ==
    /\ query = "none"
    /\ LET after_profile == ProfileFilter(config, fetched)
           channels == ExcludeFilter(config, fetched.groups_map,
                                     after_profile)
           raises == \E i \in 1..Len(channels) : FloatRaises(channels[i])
       IN  result' = [after_profile |-> after_profile,
                      channels |-> channels,
                      committed |-> ~raises,
                      order |-> IF raises THEN << >>
                                ELSE SortedChannels(channels)]
    /\ query' = "refresh"
    /\ UNCHANGED << cacheVars, programs, channel, hours, now, start_time,
                    end_time, request, config, fetched >>

FilterSpec == FilterInit /\ [][RefreshChannels]_vars

SortSpec == SortInit /\ [][RefreshChannels]_vars

(* ---------------------------------------------------------------------- *)
(* Properties                                                              *)
(* ---------------------------------------------------------------------- *)

DataFields == {"channels", "groups_map", "logos_map", "epg_programs",
               "last_updated"}

\* the generation a rendered artifact belongs to (0: none or the error page)
HtmlGen(h) == IF h.kind = "guide" THEN h.gen ELSE 0

EverSucceeded == \E i \in 1..Len(outcomes) : outcomes[i].res = "ok"

LastOutcome == outcomes[Len(outcomes)]

\* the refresh of p has left the data fields as they were when it began
DataUntouched(p) == \A f \in DataFields : cache[f] = before[p][f]

\* C1: the fields a reader route obtains all belong to the same generation:
\* channels, groups_map, logos_map and epg_programs of grid_view and
\* print_guide, and html, last_updated and error of health.
C1_ReadersSeeOneGeneration ==
    \A r \in Readers :
        (pc[r] = "ret" /\ rres[r] = "200") =>
            /\ rop[r] \in {"grid_view", "print_guide"} =>
                  snap[r].channels = snap[r].groups_map
            /\ rop[r] = "grid_view" =>
                  /\ snap[r].logos_map = snap[r].channels
                  /\ snap[r].epg_programs.gen = snap[r].channels
            /\ rop[r] = "health" =>
                  /\ HtmlGen(snap[r].html) = snap[r].last_updated
                  /\ snap[r].error.msg = NoneMsg =>
                        snap[r].error.gen = snap[r].last_updated
                  /\ snap[r].error.msg # NoneMsg =>
                        snap[r].error.gen > snap[r].last_updated

\* C2: a refresh that fails after an earlier successful refresh leaves
\* html, channels, groups_map, logos_map, epg_programs and last_updated as
\* they were before the call and changes only error.
C2_FailedRefreshChangesOnlyError ==
    \A p \in Refreshers :
        (pc[p] = "release" /\ l_err[p] # NoneMsg /\ EverSucceeded) =>
            /\ DataUntouched(p)
            /\ cache.html = before[p].html
            /\ cache.error = [gen |-> gen[p], msg |-> l_err[p]]

C2_Witness ==
    \E p \in Refreshers :
        /\ pc[p] = "release" /\ l_err[p] # NoneMsg /\ EverSucceeded
        /\ cache.error # before[p].error

C4_OneRefreshInFlight ==
    Cardinality({p \in Refreshers : pc[p] \in InLock}) <= 1

C4_Witness ==
    \E p, q \in Refreshers :
        /\ p # q
        /\ pc[p] \in FetchPcs
        /\ pc[q] = "lock"

C6_LockOnlyForCommit ==
    \A p \in Refreshers :
        /\ pc[p] \in FetchPcs => cache.lock # p
        /\ cache.lock = p => pc[p] \in CommitPcs \cup ExceptPcs \cup {"release"}

\* C6 amended: the refreshing thread holds the cache lock during the whole
\* refresh, from before the authentication until after the commit or the
\* error recording, fetch, filtering and rendering included.
C6_LockHeldForWholeRefresh ==
    \A p \in Refreshers : (pc[p] \in InLock) <=> (cache.lock = p)

C6_Witness ==
    \E p \in Refreshers : pc[p] = "logos" /\ cache.lock = p

\* C7: a reader route is never blocked by a refresh in progress: while a
\* refresh holds the cache lock every reader can take its next step.
C7_ReadersNeverBlocked ==
    \A r \in Readers :
        (cache.lock # Free /\ serving) =>
            /\ ENABLED Reader(r)
            /\ pc[r] = "reading" => ENABLED ReaderRead(r)

C7_Witness ==
    \E r \in Readers :
        /\ pc[r] = "reading" /\ ri[r] > 1
        /\ \E p \in Refreshers : cache.lock = p /\ pc[p] \in FetchPcs

\* C8: once a refresh_cache call has completed, successfully or not,
\* cache html is not null, and index never serves a null artifact.
C8_HtmlSetAfterFirstRefresh ==
    /\ Len(outcomes) > 0 => cache.html # NoHtml
    /\ \A r \in Readers :
          (rop[r] = "index" /\ pc[r] = "ret") => snap[r].html # NoHtml

C8_Witness ==
    /\ Len(outcomes) > 0
    /\ outcomes[1].res = "fail"
    /\ \E r \in Readers :
          rop[r] = "index" /\ pc[r] = "ret" /\ snap[r].html.kind = "error"

\* C9: while no refresh has ever succeeded, after every failed refresh the
\* artifact is the error page carrying the message of the most recent
\* failed refresh, the same message as cache error.
C9_ErrorPageCarriesLastMessage ==
    (cache.lock = Free /\ Len(outcomes) > 0 /\ ~EverSucceeded) =>
        /\ cache.error.msg = LastOutcome.msg
        /\ cache.html = ErrorPage(LastOutcome.msg)

\* C10: between refreshes cache error is null exactly when the most
\* recently completed refresh succeeded; a refresh that fails at the
\* authentication followed by one that succeeds leaves the data of the
\* second live and error null.
C10_ErrorNullIffLastSucceeded ==
    (cache.lock = Free /\ Len(outcomes) > 0) =>
        /\ (cache.error.msg = NoneMsg) <=> (LastOutcome.res = "ok")
        /\ LastOutcome.res = "ok" =>
              /\ cache.channels = LastOutcome.gen
              /\ HtmlGen(cache.html) = LastOutcome.gen
              /\ cache.error = [gen |-> LastOutcome.gen, msg |-> NoneMsg]

C10_Witness ==
    /\ cache.lock = Free
    /\ Len(outcomes) >= 2
    /\ outcomes[Len(outcomes) - 1].res = "fail"
    /\ outcomes[Len(outcomes) - 1].msg = ErrorMsg("auth")
    /\ LastOutcome.res = "ok"
    /\ cache.error.msg = NoneMsg
    /\ cache.channels = LastOutcome.gen

\* C11: once some refresh has succeeded, channels, groups_map, logos_map,
\* epg_programs and last_updated are never null again and html is a
\* rendered guide, never the error page, whatever refreshes fail later.
C11_LiveStaysLive ==
    EverSucceeded =>
        /\ cache.channels # 0
        /\ cache.groups_map # 0
        /\ cache.logos_map # 0
        /\ cache.epg_programs # NoEpg
        /\ cache.last_updated # 0
        /\ cache.html.kind = "guide"

C11_Witness ==
    /\ EverSucceeded
    /\ LastOutcome.res = "fail"
    /\ cache.lock = Free
    /\ cache.error.msg # NoneMsg

(* ---------------------------------------------------------------------- *)
(* Properties of the programme queries                                     *)
(* ---------------------------------------------------------------------- *)

ProgramPositions == 1..Len(programs)

\* the programme at position i carries the schedule key of the channel
HasChannelKey(i) ==
    /\ channel.tvg_id \notin {NoKey, ""}
    /\ programs[i].tvg_id = channel.tvg_id

\* both timestamps of the programme at position i are present and parse
WellFormed(i) ==
    /\ programs[i].start_time.kind = "iso"
    /\ programs[i].end_time.kind = "iso"

StartOf(i) == programs[i].start_time.t

EndOf(i) == programs[i].end_time.t

\* C12: get_current_program_for_channel returns P exactly when P has the
\* key of the channel, P.start <= T < P.end (a programme ending at T is not
\* current) and no earlier programme of the list with that key contains T.
C12_CurrentIsFirstHalfOpenMatch ==
    query = "current" =>
        LET Contains(i) == /\ HasChannelKey(i)
                           /\ WellFormed(i)
                           /\ StartOf(i) <= now
                           /\ now < EndOf(i)
        IN  \A i \in ProgramPositions :
                (result = i) <=> (Contains(i) /\ \A j \in 1..(i - 1) : ~Contains(j))

\* the programmes of the channel that start after the instant queried
StartsAfterNow ==
    {i \in ProgramPositions :
        /\ HasChannelKey(i)
        /\ programs[i].start_time.kind = "iso"
        /\ StartOf(i) > now}

OverlappingSet(s, e) ==
    {i \in ProgramPositions :
        /\ HasChannelKey(i)
        /\ WellFormed(i)
        /\ StartOf(i) < e
        /\ EndOf(i) > s}

SeqRange(seq) == {seq[k] : k \in 1..Len(seq)}

\* C14: get_programs_in_timerange returns exactly the programmes with the
\* key of the channel, start < B and end > A, each once, in ascending order
\* of start, also for overlapping programmes and for lists out of order.
C14_TimerangeIsOverlapSortedByStart ==
    query = "timerange" =>
        /\ SeqRange(result) = OverlappingSet(start_time, end_time)
        /\ Len(result) = Cardinality(OverlappingSet(start_time, end_time))
        /\ \A k, l \in 1..Len(result) :
              k < l => StartOf(result[k]) <= StartOf(result[l])

C14_Witness ==
    /\ query = "timerange"
    /\ Len(result) = 2
    /\ result[1] > result[2]
    /\ EndOf(result[1]) > StartOf(result[2])

\* C15: get_programs_in_timerange is monotonic in its window: a programme
\* returned for [A, B) is returned for every window [A', B') around it.
C15_TimerangeMonotonic ==
    query = "timerange" =>
        \A s \in Times, e \in Times :
            (s <= start_time /\ end_time <= e) =>
                SeqRange(result) \subseteq
                    SeqRange(get_programs_in_timerange(channel, programs, s, e))

C15_Witness ==
    /\ query = "timerange"
    /\ result # << >>
    /\ \E s \in Times, e \in Times :
          /\ s <= start_time /\ end_time <= e
          /\ SeqRange(get_programs_in_timerange(channel, programs, s, e))
                # SeqRange(result)

\* C16: for a channel whose key is missing or empty, or that has no
\* programme with its key, current and next return none and the range query
\* the empty list; a programme without key is matched to no channel.
C16_NoKeyNoData ==
    LET noData == \/ channel.tvg_id \in {NoKey, ""}
                  \/ \A i \in ProgramPositions :
                        programs[i].tvg_id # channel.tvg_id
    IN  /\ (query \in {"current", "next"} /\ noData) => result = 0
        /\ (query = "timerange" /\ noData) => result = << >>
        /\ (query \in {"current", "next"} /\ result # 0) =>
              programs[result].tvg_id # NoKey
        /\ query = "timerange" =>
              \A i \in SeqRange(result) : programs[i].tvg_id # NoKey

C16_Witness ==
    /\ query = "timerange"
    /\ channel.tvg_id = NoKey
    /\ \E i \in ProgramPositions :
          /\ programs[i].tvg_id = NoKey
          /\ WellFormed(i)
          /\ StartOf(i) < end_time
          /\ EndOf(i) > start_time

\* the positions of the programmes whose two timestamps parse
WellFormedPositions ==
    Positions([i \in ProgramPositions |-> WellFormed(i)], 1)

\* the programme list with the malformed programmes removed
WithoutMalformed ==
    [k \in 1..Len(WellFormedPositions) |-> programs[WellFormedPositions[k]]]

\* the position in programs of a position of WithoutMalformed
Original(k) == IF k = 0 THEN 0 ELSE WellFormedPositions[k]

\* C17: a programme whose start or end is missing or does not parse is
\* skipped by the three queries, and each result is the result on the list
\* with the malformed programmes removed.
C17_MalformedProgramsSkipped ==
    /\ query = "current" =>
          result = Original(get_current_program_for_channel(
                                channel, WithoutMalformed, now))
    /\ query = "next" =>
          result = Original(get_next_program_for_channel(
                                channel, WithoutMalformed, now))
    /\ query = "timerange" =>
          LET clean == get_programs_in_timerange(channel, WithoutMalformed,
                                                 start_time, end_time)
          IN  result = [k \in 1..Len(clean) |-> Original(clean[k])]

(* ---------------------------------------------------------------------- *)
(* Properties of the grid projection                                       *)
(* ---------------------------------------------------------------------- *)

\* clip(t) = max(windowStart, min(t, windowEnd))
Clip(t) ==
    LET m == IF t <= end_time THEN t ELSE end_time
    IN  IF m >= start_time THEN m ELSE start_time

ProgramBlocks == {b \in SeqRange(result.blocks) : ~b.no_data}

\* total timeline width: slotCount * slotWidth
TimelineWidth == Len(result.time_slots) * slot_width

\* C18: every programme block has leftPx = slotWidth * (clip(start) -
\* windowStart) / 30 and widthPx = slotWidth * (clip(end) - clip(start)) / 30,
\* so leftPx >= 0 and widthPx > 0, and a programme inside the window has
\* widthPx / slotWidth = duration / 30.
C18_BlocksAreClippedProjection ==
    query = "grid" =>
        \A b \in ProgramBlocks :
            /\ b.left_px * 30 = slot_width * (Clip(StartOf(b.prog)) - start_time)
            /\ b.width_px * 30 =
                  slot_width * (Clip(EndOf(b.prog)) - Clip(StartOf(b.prog)))
            /\ b.left_px >= 0
            /\ b.width_px > 0
            /\ (start_time <= StartOf(b.prog) /\ EndOf(b.prog) <= end_time) =>
                  b.width_px * 30 = slot_width * (EndOf(b.prog) - StartOf(b.prog))

\* C18 amended: the same two formulas and leftPx >= 0, with widthPx > 0
\* exactly for the programmes whose start is before their end: a programme
\* with end <= start that passes the overlap test gets widthPx <= 0.
C18_BlocksAreClippedProjectionProper ==
    query = "grid" =>
        \A b \in ProgramBlocks :
            /\ b.left_px * 30 = slot_width * (Clip(StartOf(b.prog)) - start_time)
            /\ b.width_px * 30 =
                  slot_width * (Clip(EndOf(b.prog)) - Clip(StartOf(b.prog)))
            /\ b.left_px >= 0
            /\ (b.width_px > 0) <=> (StartOf(b.prog) < EndOf(b.prog))
            /\ (start_time <= StartOf(b.prog) /\ EndOf(b.prog) <= end_time) =>
                  b.width_px * 30 = slot_width * (EndOf(b.prog) - StartOf(b.prog))

C18_Witness ==
    /\ query = "grid"
    /\ \E b \in ProgramBlocks :
          /\ StartOf(b.prog) < start_time
          /\ EndOf(b.prog) < end_time
          /\ b.left_px = 0
          /\ b.width_px > 0
    /\ \E b \in ProgramBlocks :
          /\ start_time < StartOf(b.prog)
          /\ StartOf(b.prog) < EndOf(b.prog)
          /\ EndOf(b.prog) <= end_time

\* C19: a programme that starts before windowStart gets leftPx = 0, and a
\* programme that ends after windowEnd gets a right edge equal to the total
\* timeline width slotCount * slotWidth.
C19_ClippedEdges ==
    query = "grid" =>
        \A b \in ProgramBlocks :
            /\ StartOf(b.prog) < start_time => b.left_px = 0
            /\ EndOf(b.prog) > end_time =>
                  b.left_px + b.width_px = TimelineWidth

\* C20: every channel row has at least one block: exactly one "no data"
\* block with left 0 and the total timeline width when no programme
\* overlaps the window, one block per overlapping programme otherwise.
C20_RowNeverEmpty ==
    query = "grid" =>
        LET overlapping == OverlappingSet(start_time, end_time)
        IN  /\ Len(result.blocks) >= 1
            /\ overlapping = {} =>
                  result.blocks = << [prog |-> 0, no_data |-> TRUE,
                                      left_px |-> 0,
                                      width_px |-> TimelineWidth] >>
            /\ overlapping # {} =>
                  /\ Len(result.blocks) = Cardinality(overlapping)
                  /\ {b.prog : b \in ProgramBlocks} = overlapping
                  /\ \A b \in SeqRange(result.blocks) : ~b.no_data

C20_Witness ==
    /\ query = "grid"
    /\ Len(result.blocks) = 1
    /\ result.blocks[1].no_data
    /\ \E i \in ProgramPositions : programs[i].tvg_id = channel.tvg_id

\* C21: for every window length of hours in 2..24 the window has
\* ceil(hours * 60 / 30) + 1 slots, 30 minutes apart, the first at the window
\* start and the last at the window start plus hours, and the total timeline
\* width is the number of slots times the slot width.
C21_SlotsSpanTheWindow ==
    query = "window" =>
        LET time_slots == result.time_slots
            slotCount == Len(time_slots)
        IN  /\ hours \in 2..24
            /\ request.hours \in 2..24 => hours = request.hours
            /\ slotCount = (hours * 60 + 29) \div 30 + 1
            /\ \A i \in 1..(slotCount - 1) :
                  time_slots[i + 1] = time_slots[i] + 30
            /\ time_slots[1] = start_time
            /\ time_slots[slotCount] = start_time + hours * 60
            /\ end_time = start_time + hours * 60
            /\ result.total_width = slotCount * slot_width

C21_Witness ==
    /\ query = "window"
    /\ request.hours = 24
    /\ Len(result.time_slots) = 49
    /\ result.total_width = 9800

\* C22: for every client offset, also one that is not a multiple of 30, and
\* every selected local date and start hour, the UTC window start is the
\* requested local start plus the offset, and the label of the first slot
\* is the requested local start time.
C22_OffsetAppliedOnceEachWay ==
    (query = "window" /\ DateSelected(request)) =>
        /\ start_time = LocalStart(request) + tz_offset_minutes(request)
        /\ result.labels[1] = time_label(LocalStart(request))

\* the channel ids a profile declares: its int items and its strings of
\* digits
DeclaredIds(profile) ==
    IF profile.channels.is_list
       THEN {profile.channels.items[k].value :
                k \in {j \in 1..Len(profile.channels.items) :
                          profile.channels.items[j].kind
                              \in {"int", "digits"}}}
       ELSE {}

\* the profiles whose name is the configured name, ignoring case
MatchingProfiles ==
    {i \in 1..Len(fetched.profiles) :
        Lower(fetched.profiles[i].name) = Lower(config.CHANNEL_PROFILE_NAME)}

\* C23: the profile filter fails open: when a profile name is configured
\* and the profile is found with a non-empty list of channel ids, the
\* channels are exactly the fetched channels whose id is in the list, in
\* the fetched order; when no profile is configured, the profile is not
\* found or it declares no channel, the channel list is unchanged; and
\* without a group exclusion these are the channels committed.
C23_ProfileFilterFailsOpen ==
    query = "refresh" =>
        LET found == config.CHANNEL_PROFILE_NAME # "" /\ MatchingProfiles # {}
            first == CHOOSE i \in MatchingProfiles :
                         \A j \in MatchingProfiles : i <= j
            listed == IF found THEN DeclaredIds(fetched.profiles[first])
                               ELSE {}
        IN  /\ (found /\ listed # {}) =>
                  result.after_profile =
                      SelectSeq(fetched.channels,
                                LAMBDA ch : ch.id \in listed)
            /\ ~(found /\ listed # {}) =>
                  result.after_profile = fetched.channels
            /\ config.EXCLUDE_CHANNEL_GROUPS = << >> =>
                  /\ result.committed
                  /\ result.channels = result.after_profile

C23_Witness ==
    /\ query = "refresh"
    /\ config.CHANNEL_PROFILE_NAME = "Family"
    /\ MatchingProfiles # {}
    /\ DeclaredIds(fetched.profiles[1]) = {2}
    /\ Len(fetched.channels) = 2
    /\ fetched.channels[1].id = 1
    /\ Len(result.channels) = 1
    /\ result.committed

\* the configured excluded names: the non-empty stripped parts
ExcludedNames ==
    {Strip(config.EXCLUDE_CHANNEL_GROUPS[k]) :
        k \in 1..Len(config.EXCLUDE_CHANNEL_GROUPS)} \ {""}

\* the group id of the channel maps to a name
GroupMapped(ch) == ch.channel_group_id \in DOMAIN fetched.groups_map

\* the group id of the channel maps to an excluded name, ignoring case
InExcludedGroup(ch) ==
    /\ GroupMapped(ch)
    /\ \E n \in ExcludedNames :
          Lower(fetched.groups_map[ch.channel_group_id]) = Lower(n)

\* C24: the group exclusion drops exactly the channels whose group id maps
\* in the fetched group-name mapping to a name equal, ignoring case, to a
\* configured excluded name; a channel with no group id or with a group id
\* absent from the mapping is never dropped by it.
C24_GroupExclusionByName ==
    query = "refresh" =>
        /\ result.channels =
              SelectSeq(result.after_profile,
                        LAMBDA ch : ~InExcludedGroup(ch))
        /\ \A i \in 1..Len(result.after_profile) :
              ~GroupMapped(result.after_profile[i]) =>
                  \E k \in 1..Len(result.channels) :
                      result.channels[k] = result.after_profile[i]

C24_Witness ==
    /\ query = "refresh"
    /\ config.EXCLUDE_CHANNEL_GROUPS = << " news " >>
    /\ Len(result.after_profile) = 2
    /\ result.after_profile[1].channel_group_id = 10
    /\ DOMAIN fetched.groups_map = {10}
    /\ fetched.groups_map[10] = "NEWS"
    /\ ~GroupMapped(result.after_profile[2])
    /\ result.channels = << result.after_profile[2] >>

\* the channel number converts to a number
NumericNumber(ch) == ch.channel_number.kind \in {"number", "numeric_text"}

\* C30: a fetched channel whose channel number is absent, null or not
\* parseable as a number does not make the refresh fail: the refresh
\* commits, and the channel is ordered after all channels with a numeric
\* channel number.
C30_BadChannelNumberSortsLast ==
    query = "refresh" =>
        /\ result.committed
        /\ Len(result.order) = Len(result.channels)
        /\ \A k, l \in 1..Len(result.order) :
              (k < l /\ NumericNumber(result.channels[result.order[l]]))
                  => NumericNumber(result.channels[result.order[k]])

\* C26: the reader routes index, health, grid_view and print_guide leave
\* every field of the cache as it is, the cached collections included; the
\* cache changes only in a step of refresh_cache.
C26_ReadersLeaveCacheUnchanged ==
    [][/\ (\E r \in Readers : Reader(r)) => cache' = cache
       /\ cache' # cache =>
             \E p \in Refreshers : pc[p] \in {"lock"} \cup InLock
                                   /\ pc'[p] # pc[p]]_vars

C26_Witness ==
    /\ \E r \in Readers :
          /\ pc[r] = "ret"
          /\ rop[r] = "grid_view"
          /\ rres[r] = "200"
          /\ snap[r].channels # 0
    /\ cache.channels # 0
    /\ cache.lock = Free

\* C28: after every successful refresh the "last updated" time embedded in
\* the cached html is the last_updated timestamp of the generation the html
\* belongs to, not that of the previous generation and not 'Unknown'.
C28_FooterIsOwnTimestamp ==
    (cache.lock = Free /\ outcomes # << >> /\ LastOutcome.res = "ok") =>
        /\ cache.html.kind = "guide"
        /\ cache.html.gen = cache.last_updated
        /\ cache.html.updated = cache.last_updated

\* the condition of line 2145 and of line 2344: a collection is still None
Loading == cache.channels = 0 \/ cache.groups_map = 0

\* a refresh is past everything that can raise and is assigning the cache
Committing ==
    \E p \in Refreshers :
        pc[p] \in CommitPcs \cup {"release"} /\ l_err[p] = NoneMsg

C27_CommittedProgramsAreTheFetched ==
    \A p \in Refreshers :
        (pc[p] = "release" /\ l_err[p] = NoneMsg
            /\ answered[p] \in UpstreamPrograms \ {<< >>})
        => cache.epg_programs = [gen |-> gen[p], progs |-> answered[p]]

\* the error a response of manual_refresh reports: its error field, None
\* when the response has no such field
ReportedError(body) ==
    IF "error" \in DOMAIN body THEN body.error ELSE NoneMsg

\* C25: manual_refresh is synchronous: it answers only after the refresh it
\* triggered has completed, and its answer reports the timestamp and the
\* error of that refresh, so that a failed refresh can be told from a
\* successful one.
C25_ManualRefreshReportsItsRefresh ==
    (pc["man"] = "idle" /\ resp.status = "refreshed") =>
        /\ triggered.res \in {"ok", "fail"}
        /\ \E i \in 1..Len(outcomes) : outcomes[i] = triggered
        /\ ReportedError(resp) = triggered.msg
        /\ triggered.res = "ok" => resp.last_updated = triggered.gen
====
